---- MODULE Spec2Model ----
\* Authentication and session lifecycle of the auth-service:
\* register / login / logout / refreshToken / verifyEmail handlers
\* (auth.controller.ts), the authenticate middleware (auth.middleware) and the
\* key-value store (redis) they share.
EXTENDS Integers, Sequences, FiniteSets, TLC

\* ---------------------------------------------------------------- bounds
\* Time is counted in abstract clock units; several requests may be served
\* within one unit (same issued-at second).  The lifetimes keep the order of
\* the source: 24h (verification) < 7d (access) < 30d (refresh).
MaxTime == 4
VerifyJwtTtl == 1
VerifyRedisTtl == 1
AccessJwtTtl == 2
RefreshJwtTtl == 3
RefreshRedisTtl == 3
MaxBlacklisted == 1

\* ---------------------------------------------------------------- constants
MinPasswordLength == 8

JWT_SECRET == "your-secret-key"

Emails == {"a@x.io", "b@x.io"}

\* the _id the database gives the record created for an email
IdOf(email) == IF email = "a@x.io" THEN "id-a" ELSE "id-b"

UserIds == {IdOf(e) : e \in Emails}

RegisterPasswords == {"correct-horse", "short"}
LoginPasswords == {"correct-horse", "wrong-guess"}

VARIABLES now, users, redis, res, inflight, admitted, products

vars == <<now, users, redis, res, inflight, admitted, products>>

\* ---------------------------------------------------------------- tokens
\* A JWT is its payload, its iat/exp and the key it was signed with.
NoToken == [userId |-> "-", email |-> "-", role |-> "-", iat |-> 0, exp |-> 0, sig |-> "-"]

MalformedToken == [userId |-> "-", email |-> "-", role |-> "-", iat |-> 0, exp |-> 0, sig |-> "malformed"]

jwtSign(userId, email, role, ttl) ==
    [userId |-> userId, email |-> email, role |-> role,
     iat |-> now, exp |-> now + ttl, sig |-> JWT_SECRET]

\* jwt.verify: signature first, then expiry; the outcome is the error name
\* or "ok"
jwtVerify(token) ==
    IF token.sig # JWT_SECRET THEN "JsonWebTokenError"
    ELSE IF now >= token.exp THEN "TokenExpiredError"
    ELSE "ok"

SignAccess(userId, email, role) == jwtSign(userId, email, role, AccessJwtTtl)
SignRefresh(userId) == jwtSign(userId, "-", "-", RefreshJwtTtl)
SignVerification(userId, email) == jwtSign(userId, email, "-", VerifyJwtTtl)

\* ---------------------------------------------------------------- store
\* redis maps the existing keys to [val, exp]; a key is <<namespace, id>>.
Key(ns, id) == <<ns, id>>

redisExists(r, k) == k \in DOMAIN r

redisGet(r, k) == IF k \in DOMAIN r THEN r[k].val ELSE NoToken

\* a set that keeps the value of a key that is already there
redisSetExKeepExisting(r, k, ttl, v) ==
    [x \in (DOMAIN r) \cup {k} |->
        IF x = k /\ k \notin DOMAIN r THEN [val |-> v, exp |-> now + ttl] ELSE r[x]]

redisSetEx(r, k, ttl, v) ==
    [x \in (DOMAIN r) \cup {k} |->
        IF x = k THEN [val |-> v, exp |-> now + ttl] ELSE r[x]]

redisDel(r, k) == [x \in (DOMAIN r) \ {k} |-> r[x]]

\* keys whose time-to-live has run out at time t are gone
redisExpire(r, t) == [x \in {k \in DOMAIN r : r[k].exp > t} |-> r[x]]

\* ---------------------------------------------------------------- users
NoUser == [exists |-> FALSE, password |-> <<"-", "-">>, isEmailVerified |-> FALSE, role |-> "-"]

\* UserSchema.pre('save'): the stored password is the bcrypt digest
bcryptHash(password) == <<"bcrypt", password>>

comparePassword(user, candidate) == user.password = bcryptHash(candidate)

EmailOf(userId) == CHOOSE e \in Emails : IdOf(e) = userId

findById(userId) ==
    IF userId \in UserIds THEN users[EmailOf(userId)] ELSE NoUser

\* ---------------------------------------------------------------- responses
\* res is the last response sent: the handler, the status, the subject the
\* request was about, the tokens in the body, and `after`: the handler of the
\* request answered just before it when that one succeeded for the same subject
Success(status) == status \in {200, 201}

Response(op, status, sub, access, refresh) ==
    [op |-> op, status |-> status, sub |-> sub,
     access |-> access, refresh |-> refresh,
     after |-> IF Success(res.status) /\ res.sub = sub THEN res.op ELSE "-"]

NoResponse == [op |-> "-", status |-> 0, sub |-> "-",
               access |-> NoToken, refresh |-> NoToken, after |-> "-"]

\* the products collection: one document per id
ProductIds == {"prod-1"}

\* no name given: the empty sequence of characters
NoName == <<>>

NoProduct == [exists |-> FALSE, id |-> "-", name |-> NoName, slug |-> NoName, quantity |-> 0, status |-> "-"]

\* requests that have started and not yet answered: each of the Procs is one
\* request at a time, `pc` its position in the handler, the other fields what
\* the handler holds in local variables
Procs == {"p1", "p2"}

Idle == [pc |-> "idle", op |-> "-", sub |-> "-", token |-> NoToken,
         refresh |-> NoToken, n |-> 0, since |-> 0, status |-> 0, password |-> "-"]

\* what a handler leaves behind: the response and the collaborators' state
Outcome(status, message, u, r, access, refresh) ==
    [status |-> status, message |-> message, users |-> u, redis |-> r,
     access |-> access, refresh |-> refresh]

\* ---------------------------------------------------------------- middleware
NoHeader == [scheme |-> "-", token |-> NoToken]

Bearer(token) == [scheme |-> "Bearer", token |-> token]

\* `if (isBlacklisted)`: the key exists and holds a non-empty string
isBlacklisted(r, token) ==
    /\ redisExists(r, Key("blacklist", token))
    /\ r[Key("blacklist", token)].val # ""

Rejected(message) == [next |-> FALSE, status |-> 401, message |-> message, user |-> NoToken]

\* authenticate without the revocation lookup
authenticateNoLookup(hdr) ==
    IF hdr.scheme # "Bearer" THEN Rejected("No token provided")
    ELSE IF jwtVerify(hdr.token) = "TokenExpiredError" THEN Rejected("Token has expired")
    ELSE IF jwtVerify(hdr.token) # "ok" THEN Rejected("Invalid token")
    ELSE [next |-> TRUE, status |-> 200, message |-> "-", user |-> hdr.token]

\* authenticate that asks the store before it verifies the token
authenticateStoreLookupFirst(hdr, fail) ==
    IF hdr.scheme # "Bearer" THEN Rejected("No token provided")
    ELSE IF fail = "get" THEN Rejected("Invalid token")
    ELSE IF isBlacklisted(redis, hdr.token) THEN Rejected("Token has been invalidated")
    ELSE IF jwtVerify(hdr.token) = "TokenExpiredError" THEN Rejected("Token has expired")
    ELSE IF jwtVerify(hdr.token) # "ok" THEN Rejected("Invalid token")
    ELSE [next |-> TRUE, status |-> 200, message |-> "-", user |-> hdr.token]

\* authenticate that honours the token when the lookup cannot be made
authenticateStoreFailOpen(hdr, fail) ==
    IF hdr.scheme # "Bearer" THEN Rejected("No token provided")
    ELSE IF jwtVerify(hdr.token) = "TokenExpiredError" THEN Rejected("Token has expired")
    ELSE IF jwtVerify(hdr.token) # "ok" THEN Rejected("Invalid token")
    ELSE IF fail # "get" /\ isBlacklisted(redis, hdr.token)
    THEN Rejected("Token has been invalidated")
    ELSE [next |-> TRUE, status |-> 200, message |-> "-", user |-> hdr.token]

\* fail = "get": redisClient.get throws; the catch answers every error whose
\* name is not TokenExpiredError with "Invalid token"
authenticateStore(hdr, fail) ==
    IF hdr.scheme # "Bearer" THEN Rejected("No token provided")
    ELSE IF jwtVerify(hdr.token) = "TokenExpiredError" THEN Rejected("Token has expired")
    ELSE IF jwtVerify(hdr.token) # "ok" THEN Rejected("Invalid token")
    ELSE IF fail = "get" THEN Rejected("Invalid token")
    ELSE IF isBlacklisted(redis, hdr.token) THEN Rejected("Token has been invalidated")
    ELSE [next |-> TRUE, status |-> 200, message |-> "-", user |-> hdr.token]

authenticate(hdr) == authenticateStore(hdr, "none")

\* ---------------------------------------------------------------- handlers
\* a schema whose isEmailVerified defaults to true
NewUserVerified(password) ==
    [exists |-> TRUE, password |-> bcryptHash(password),
     isEmailVerified |-> TRUE, role |-> "customer"]

NewUser(password) ==
    [exists |-> TRUE, password |-> bcryptHash(password),
     isEmailVerified |-> FALSE, role |-> "customer"]

\* register, past the existence check
registerCreate(email, password) ==
    IF Len(password) < MinPasswordLength
    THEN Outcome(500, "Internal server error", users, redis, NoToken, NoToken)
    ELSE LET id == IdOf(email)
             user == NewUser(password)
             verificationToken == SignVerification(id, email)
             r1 == redisSetEx(redis, Key("verify", id), VerifyRedisTtl, verificationToken)
             access == SignAccess(id, email, user.role)
             refresh == SignRefresh(id)
             r2 == redisSetEx(r1, Key("refresh", id), RefreshRedisTtl, refresh)
         IN Outcome(201, "User registered successfully. Please verify your email.",
                    [users EXCEPT ![email] = user], r2, access, refresh)

\* register without the existence check
registerNoExistenceCheck(email, password) == registerCreate(email, password)

register(email, password) ==
    IF users[email].exists
    THEN Outcome(400, "User already exists", users, redis, NoToken, NoToken)
    ELSE registerCreate(email, password)

\* login that returns the pair without storing the refresh token
loginIssueNoStore(email) ==
    LET id == IdOf(email)
    IN Outcome(200, "-", users, redis,
               SignAccess(id, email, users[email].role), SignRefresh(id))

\* login, past the credential and verification checks
loginIssue(email) ==
    LET id == IdOf(email)
        access == SignAccess(id, email, users[email].role)
        refresh == SignRefresh(id)
    IN Outcome(200, "-", users,
               redisSetEx(redis, Key("refresh", id), RefreshRedisTtl, refresh),
               access, refresh)

\* login that tells an unknown email from a wrong password
loginLeaky(email, password) ==
    IF ~users[email].exists
    THEN Outcome(404, "User not found", users, redis, NoToken, NoToken)
    ELSE IF ~comparePassword(users[email], password)
    THEN Outcome(401, "Invalid credentials", users, redis, NoToken, NoToken)
    ELSE IF ~users[email].isEmailVerified
    THEN Outcome(403, "Please verify your email first", users, redis, NoToken, NoToken)
    ELSE loginIssue(email)

\* login without the isEmailVerified check
loginNoVerificationCheck(email, password) ==
    IF ~users[email].exists
    THEN Outcome(401, "Invalid credentials", users, redis, NoToken, NoToken)
    ELSE IF ~comparePassword(users[email], password)
    THEN Outcome(401, "Invalid credentials", users, redis, NoToken, NoToken)
    ELSE loginIssue(email)

login(email, password) ==
    IF ~users[email].exists
    THEN Outcome(401, "Invalid credentials", users, redis, NoToken, NoToken)
    ELSE IF ~comparePassword(users[email], password)
    THEN Outcome(401, "Invalid credentials", users, redis, NoToken, NoToken)
    ELSE IF ~users[email].isEmailVerified
    THEN Outcome(403, "Please verify your email first", users, redis, NoToken, NoToken)
    ELSE loginIssue(email)

\* logout that answers without deleting refresh:<userId>
logoutKeepSession(reqUser) ==
    IF reqUser = NoToken
    THEN Outcome(500, "Internal server error", users, redis, NoToken, NoToken)
    ELSE Outcome(200, "Logged out successfully", users, redis, NoToken, NoToken)

\* logout that treats a subject without a stored session as an error
logoutStrict(reqUser) ==
    IF reqUser = NoToken \/ Key("refresh", reqUser.userId) \notin DOMAIN redis
    THEN Outcome(500, "Internal server error", users, redis, NoToken, NoToken)
    ELSE Outcome(200, "Logged out successfully", users,
                 redisDel(redis, Key("refresh", reqUser.userId)), NoToken, NoToken)

\* logout reads req.user; without it the destructuring throws into the catch
logout(reqUser) ==
    IF reqUser = NoToken
    THEN Outcome(500, "Internal server error", users, redis, NoToken, NoToken)
    ELSE Outcome(200, "Logged out successfully", users,
                 redisDel(redis, Key("refresh", reqUser.userId)), NoToken, NoToken)

\* a comparison that only asks whether some token is stored
refreshMismatchAbsentOnly(storedToken, token) == storedToken = NoToken

\* `storedToken !== refreshToken`
refreshMismatch(storedToken, token) == storedToken # token

\* refresh that also issues and stores a new refresh token
refreshTokenRotating(token) ==
    IF token = NoToken
    THEN Outcome(400, "Refresh token is required", users, redis, NoToken, NoToken)
    ELSE IF jwtVerify(token) # "ok"
    THEN Outcome(401, "Invalid refresh token", users, redis, NoToken, NoToken)
    ELSE IF refreshMismatch(redisGet(redis, Key("refresh", token.userId)), token)
    THEN Outcome(401, "Invalid refresh token", users, redis, NoToken, NoToken)
    ELSE IF ~findById(token.userId).exists
    THEN Outcome(404, "User not found", users, redis, NoToken, NoToken)
    ELSE Outcome(200, "-", users,
                 redisSetEx(redis, Key("refresh", token.userId), RefreshRedisTtl,
                            SignRefresh(token.userId)),
                 SignAccess(token.userId, EmailOf(token.userId), findById(token.userId).role),
                 SignRefresh(token.userId))

refreshToken(token) ==
    IF token = NoToken
    THEN Outcome(400, "Refresh token is required", users, redis, NoToken, NoToken)
    ELSE IF jwtVerify(token) # "ok"
    THEN Outcome(401, "Invalid refresh token", users, redis, NoToken, NoToken)
    ELSE IF refreshMismatch(redisGet(redis, Key("refresh", token.userId)), token)
    THEN Outcome(401, "Invalid refresh token", users, redis, NoToken, NoToken)
    ELSE IF ~findById(token.userId).exists
    THEN Outcome(404, "User not found", users, redis, NoToken, NoToken)
    ELSE Outcome(200, "-", users, redis,
                 SignAccess(token.userId, EmailOf(token.userId), findById(token.userId).role),
                 NoToken)

\* verifyEmail that leaves verify:<userId> in the store
verifyConsumeKeepToken(userId) ==
    Outcome(200, "Email verified successfully",
            [e \in Emails |->
                IF users[e].exists /\ IdOf(e) = userId
                THEN [users[e] EXCEPT !.isEmailVerified = TRUE] ELSE users[e]],
            redis, NoToken, NoToken)

\* verifyEmail, past the token checks: findByIdAndUpdate, then del
verifyConsume(userId) ==
    Outcome(200, "Email verified successfully",
            [e \in Emails |->
                IF users[e].exists /\ IdOf(e) = userId
                THEN [users[e] EXCEPT !.isEmailVerified = TRUE] ELSE users[e]],
            redisDel(redis, Key("verify", userId)), NoToken, NoToken)

\* verifyEmail that does not compare the token with the stored one
verifyEmailAnyToken(token) ==
    IF token = NoToken
    THEN Outcome(400, "Verification token is required", users, redis, NoToken, NoToken)
    ELSE IF jwtVerify(token) # "ok"
    THEN Outcome(400, "Invalid or expired verification token", users, redis, NoToken, NoToken)
    ELSE verifyConsume(token.userId)

verifyEmail(token) ==
    IF token = NoToken
    THEN Outcome(400, "Verification token is required", users, redis, NoToken, NoToken)
    ELSE IF jwtVerify(token) # "ok"
    THEN Outcome(400, "Invalid or expired verification token", users, redis, NoToken, NoToken)
    ELSE IF redisGet(redis, Key("verify", token.userId)) # token
    THEN Outcome(400, "Invalid or expired verification token", users, redis, NoToken, NoToken)
    ELSE verifyConsume(token.userId)

\* ---------------------------------------------------------------- requests
\* what a client can put in a request: any token the service can have signed
\* so far for a registered subject, a token signed with another key, a string
\* that is no JWT, nothing
Registered == {e \in Emails : users[e].exists}

SignedTokens ==
    {[userId |-> IdOf(e), email |-> e, role |-> users[e].role,
      iat |-> t, exp |-> t + AccessJwtTtl, sig |-> JWT_SECRET] : e \in Registered, t \in 0..now}
    \cup {[userId |-> IdOf(e), email |-> "-", role |-> "-",
      iat |-> t, exp |-> t + RefreshJwtTtl, sig |-> JWT_SECRET] : e \in Registered, t \in 0..now}
    \cup {[userId |-> IdOf(e), email |-> e, role |-> "-",
      iat |-> t, exp |-> t + VerifyJwtTtl, sig |-> JWT_SECRET] : e \in Registered, t \in 0..now}

ForgedToken ==
    [userId |-> "id-a", email |-> "-", role |-> "-",
     iat |-> 0, exp |-> MaxTime + RefreshJwtTtl, sig |-> "attacker-key"]

Tokens == SignedTokens \cup {ForgedToken, MalformedToken}

Headers == {NoHeader} \cup {Bearer(t) : t \in Tokens}

\* the subject a presented token names
SubjectOf(token) == IF token.sig = JWT_SECRET THEN token.userId ELSE "-"

Apply(op, sub, o) ==
    /\ users' = o.users
    /\ redis' = o.redis
    /\ res' = Response(op, o.status, sub, o.access, o.refresh)
    /\ UNCHANGED <<now, inflight, admitted, products>>

Register(email, password) == Apply("register", IdOf(email), register(email, password))

Login(email, password) == Apply("login", IdOf(email), login(email, password))

Refresh(token) == Apply("refresh", SubjectOf(token), refreshToken(token))

VerifyEmail(token) == Apply("verifyEmail", SubjectOf(token), verifyEmail(token))

\* POST /logout is mounted behind authenticate
LogoutRoute(hdr) ==
    LET a == authenticate(hdr)
    IN IF a.next
       THEN Apply("logout", SubjectOf(hdr.token), logout(a.user))
       ELSE Apply("logout", SubjectOf(hdr.token),
                  Outcome(a.status, a.message, users, redis, NoToken, NoToken))

Init ==
    /\ now = 0
    /\ users = [e \in Emails |-> NoUser]
    /\ redis = <<>>
    /\ res = NoResponse
    /\ inflight = [p \in Procs |-> Idle]
    /\ admitted = {}
    /\ products = [id \in ProductIds |-> NoProduct]

Tick ==
    /\ now < MaxTime
    /\ now' = now + 1
    /\ redis' = redisExpire(redis, now + 1)
    /\ UNCHANGED <<users, res, inflight, admitted, products>>

Next ==
    \/ Tick
    \/ \E e \in Emails, p \in RegisterPasswords : Register(e, p)
    \/ \E e \in Emails, p \in LoginPasswords : Login(e, p)
    \/ \E h \in Headers : LogoutRoute(h)
    \/ \E t \in Tokens \cup {NoToken} : Refresh(t)
    \/ \E t \in Tokens \cup {NoToken} : VerifyEmail(t)

Spec == Init /\ [][Next]_vars

\* ---------------------------------------------------------------- revocation
\* The store is shared: the Revocation Store's blacklist(token, remainingTtl)
\* puts blacklist:<token> for the rest of the token's lifetime.  No handler of
\* the auth-service calls it, so it is kept out of Next.
BlacklistKeys == {k \in DOMAIN redis : k[1] = "blacklist"}

AccessTokens == {t \in SignedTokens : t.role # "-"}

blacklist(token) ==
    /\ jwtVerify(token) = "ok"
    /\ Cardinality(BlacklistKeys \cup {Key("blacklist", token)}) <= MaxBlacklisted
    /\ redis' = redisSetEx(redis, Key("blacklist", token), token.exp - now, "true")
    /\ UNCHANGED <<now, users, res, inflight, admitted, products>>

NextStore ==
    \/ Tick
    \/ \E e \in Emails, p \in RegisterPasswords : Register(e, p)
    \/ \E h \in Headers : LogoutRoute(h)
    \/ \E t \in AccessTokens : blacklist(t)

SpecStore == Init /\ [][NextStore]_vars

\* ---------------------------------------------------------------- claims
Verifies(token) == token.sig = JWT_SECRET /\ now < token.exp

\* C1: after a successful logout, the access token presented to it is
\* rejected by authenticate for as long as it has not expired.
C1_LogoutRevokesAccessToken ==
    [][(res'.op = "logout" /\ res'.status = 200) =>
          \A t \in Tokens :
              LogoutRoute(Bearer(t))
                  => (Verifies(t) => ~authenticate(Bearer(t)).next)']_vars

\* C2: authenticate calls next() only for a Bearer token that passes the
\* signature and expiry check and has no blacklist:<token> key in the store;
\* every other request is answered 401.
C2_AuthenticateGate ==
    \A h \in Headers :
        LET a == authenticate(h)
        IN /\ a.next => /\ h.scheme = "Bearer"
                         /\ Verifies(h.token)
                         /\ Key("blacklist", h.token) \notin DOMAIN redis
           /\ ~a.next => a.status = 401

\* a logout request with a token that still verifies was turned away with 401
\* because the token is blacklisted
C2_Witness ==
    /\ res.op = "logout"
    /\ res.status = 401
    /\ \E t \in AccessTokens :
          /\ Verifies(t)
          /\ SubjectOf(t) = res.sub
          /\ Key("blacklist", t) \in DOMAIN redis
          /\ ~authenticate(Bearer(t)).next
RefreshKind(t) == t.sig = JWT_SECRET /\ t.email = "-"

StoredRefresh(id) == redisGet(redis, Key("refresh", id))

\* C3: refresh succeeds only for a token that verifies and equals the value
\* stored under refresh:<subjectId>; with the key absent or holding another
\* value a presented token is answered 401 and no access token is issued.
C3_RefreshOnlyStored ==
    /\ \A t \in Tokens \cup {NoToken} :
          LET o == refreshToken(t)
              k == Key("refresh", t.userId)
          IN /\ o.status = 200 =>
                   /\ Verifies(t)
                   /\ k \in DOMAIN redis
                   /\ redis[k].val = t
             /\ (t # NoToken /\ (k \notin DOMAIN redis \/ redis[k].val # t)) =>
                   /\ o.status = 401
                   /\ o.access = NoToken
                   /\ o.redis = redis
    /\ (res.op = "refresh" /\ res.status # 200) => res.access = NoToken

\* a refresh was turned away with 401 while a verifying refresh token of that
\* subject differs from the stored one
C3_Witness ==
    /\ res.op = "refresh"
    /\ res.status = 401
    /\ \E t \in Tokens :
          /\ Verifies(t) /\ RefreshKind(t) /\ SubjectOf(t) = res.sub
          /\ Key("refresh", t.userId) \in DOMAIN redis
          /\ StoredRefresh(t.userId) # t
          /\ refreshToken(t).status = 401

\* C4: when a subject logs in successfully twice in a row, a refresh with the
\* first login's refresh token fails with 401, whatever the time between the
\* two logins.
C4_SecondLoginInvalidatesFirst ==
    [][(res.op = "login" /\ res.status = 200 /\ res'.op = "login") =>
          \A e \in Emails, p \in LoginPasswords, first \in Tokens :
              (/\ res.sub = IdOf(e)
               /\ first = res.refresh
               /\ Login(e, p) /\ res'.status = 200)
                  => (refreshToken(first).status = 401)']_vars

\* C5: after a successful login, a refresh with the returned refresh token
\* succeeds and returns an access token that authenticate lets through.
C5_LoginThenRefresh ==
    (res.op = "login" /\ res.status = 200 /\ Verifies(res.refresh)) =>
        LET o == refreshToken(res.refresh)
        IN /\ o.status = 200
           /\ authenticate(Bearer(o.access)).next

\* a refresh answered 200 right after that subject's successful login, with
\* an access token authenticate lets through
C5_Witness ==
    /\ res.op = "refresh"
    /\ res.status = 200
    /\ res.after = "login"
    /\ authenticate(Bearer(res.access)).next

\* C6: after a successful logout, refresh:<subjectId> is absent and every
\* refresh token of that subject is answered 401, until the subject logs in
\* or registers again.
C6_LogoutEndsRefresh ==
    (res.op = "logout" /\ res.status = 200) =>
        /\ Key("refresh", res.sub) \notin DOMAIN redis
        /\ \A t \in Tokens :
              SubjectOf(t) = res.sub => refreshToken(t).status = 401

\* a refresh was answered 401 right after that subject's successful logout,
\* while a refresh token of the subject still verifies
C6_Witness ==
    /\ res.op = "refresh"
    /\ res.status = 401
    /\ res.after = "logout"
    /\ \E t \in Tokens :
          /\ Verifies(t) /\ RefreshKind(t) /\ SubjectOf(t) = res.sub
          /\ refreshToken(t).status = 401

\* C7: logout is idempotent: a logout that follows a successful logout of the
\* same subject, with a token authenticate still lets through, is answered 200
\* and leaves the store as the first logout left it.
C7_LogoutIdempotent ==
    [][(res.op = "logout" /\ res.status = 200 /\ res'.op = "logout") =>
          \A h \in Headers :
              (/\ SubjectOf(h.token) = res.sub
               /\ authenticate(h).next
               /\ LogoutRoute(h))
                  => (res'.status = 200 /\ redis' = redis /\ users' = users)]_vars

\* a logout answered 200 right after a successful logout of the same subject
C7_Witness ==
    /\ res.op = "logout"
    /\ res.status = 200
    /\ res.after = "logout"

\* C8: at most one refresh token per subject passes refresh, and it is the
\* one the latest successful register or login stored.
C8_SingleRefreshToken ==
    /\ \A id \in UserIds :
          {t \in Tokens : SubjectOf(t) = id /\ refreshToken(t).status = 200}
              \subseteq {StoredRefresh(id)}
    /\ (res.op \in {"register", "login"} /\ Success(res.status) /\ Verifies(res.refresh)) =>
          /\ StoredRefresh(res.sub) = res.refresh
          /\ refreshToken(res.refresh).status = 200

\* a login overwrote the stored token: an older refresh token of the subject
\* still verifies and no longer passes refresh
C8_Witness ==
    /\ res.op = "login"
    /\ res.status = 200
    /\ \E t \in Tokens :
          /\ Verifies(t) /\ RefreshKind(t) /\ SubjectOf(t) = res.sub
          /\ t # res.refresh
          /\ refreshToken(t).status = 401
          /\ refreshToken(res.refresh).status = 200

\* C9: once verifyEmail has succeeded for a subject, verify:<subjectId> is
\* gone and every further verifyEmail for that subject is answered 400.
C9_VerifySingleUse ==
    /\ \A e \in Emails :
          users[e].isEmailVerified =>
              /\ Key("verify", IdOf(e)) \notin DOMAIN redis
              /\ \A t \in Tokens :
                    SubjectOf(t) = IdOf(e) => verifyEmail(t).status = 400
    /\ (res.op = "verifyEmail" /\ res.status = 200) =>
          users[EmailOf(res.sub)].isEmailVerified

\* a verifyEmail answered 400 right after that subject's successful
\* verifyEmail, with a verification token that still verifies
C9_Witness ==
    /\ res.op = "verifyEmail"
    /\ res.status = 400
    /\ res.after = "verifyEmail"
    /\ \E t \in Tokens :
          /\ Verifies(t) /\ t.email # "-" /\ t.role = "-"
          /\ SubjectOf(t) = res.sub
          /\ verifyEmail(t).status = 400

\* C10: register with an email that has a record is answered 400, issues no
\* token and leaves the user records and the store as they were.
C10_RegisterConflict ==
    [][res'.op = "register" =>
          \A e \in Emails, p \in RegisterPasswords :
              (users[e].exists /\ Register(e, p))
                  => /\ res'.status = 400
                     /\ res'.access = NoToken /\ res'.refresh = NoToken
                     /\ users' = users
                     /\ redis' = redis]_vars

\* a register was answered 400 for an account whose verify and refresh keys
\* are in the store
C10_Witness ==
    /\ res.op = "register"
    /\ res.status = 400
    /\ Key("verify", res.sub) \in DOMAIN redis
    /\ Key("refresh", res.sub) \in DOMAIN redis
\* ---------------------------------------------------------------- rate limiter
\* rateLimiter(limit, windowMs) is mounted per route; its counters live in the
\* same store under ratelimit:<ip>:<path>.  Here one clock unit is a second.
Limit == 3
WindowSeconds == 2
MsPerSecond == 1000

Ips == {"10.0.0.1"}
Paths == {"/login", "/search"}

\* the windowMs each route's limiter was built with: a whole number of
\* seconds on one route, half a second more on the other
WindowMsOf(path) ==
    IF path = "/login" THEN WindowSeconds * MsPerSecond
    ELSE WindowSeconds * MsPerSecond + MsPerSecond \div 2

RateKey(ip, path) == Key("ratelimit", ip \o ":" \o path)

\* the expiry of a key that has no time-to-live: beyond every time-to-live
\* the model can set
NoTtl == MaxTime + WindowSeconds + 1

\* the hits this model follows per key
MaxCount == Limit + 2

redisCount(r, k) == IF k \in DOMAIN r THEN r[k].val ELSE 0

\* INCR: a missing key is created at 1 without a time-to-live; `since` is
\* the time the key was created
redisIncr(r, k) ==
    [x \in (DOMAIN r) \cup {k} |->
        IF x # k THEN r[x]
        ELSE IF k \in DOMAIN r THEN [r[k] EXCEPT !.val = r[k].val + 1]
        ELSE [val |-> 1, exp |-> NoTtl, since |-> now]]

\* EXPIRE key seconds
redisExpireIn(r, k, seconds) == [r EXCEPT ![k].exp = now + seconds]

\* EXPIRE takes an integer: `windowMs / 1000` with a fraction is refused and
\* the call throws
expireThrows(windowMs, fail) == fail = "expire" \/ windowMs % MsPerSecond # 0

Decision(status, r) == [status |-> status, redis |-> r]

\* the catch block: log and next()
\* a catch block that answers with an error instead
rateLimiterCatchFailClosed(r) == Decision(500, r)

rateLimiterCatch(r) == Decision(200, r)

\* `requests > limit` written as `requests >= limit`
overLimitOffByOne(requests, limit) == requests >= limit

\* a comparison that throttles only beyond twice the limit
overLimitTwice(requests, limit) == requests > 2 * limit

overLimit(requests, limit) == requests > limit

\* one request through rateLimiter(limit, windowMs); fail names the store
\* call that throws for it, if any.  Status 200 stands for next().
rateLimiter(limit, windowMs, key, fail) ==
    IF fail = "incr" THEN rateLimiterCatch(redis)
    ELSE LET requests == redisCount(redis, key) + 1
             r1 == redisIncr(redis, key)
         IN IF requests = 1 /\ expireThrows(windowMs, fail)
            THEN rateLimiterCatch(r1)
            ELSE LET r2 == IF requests = 1
                           THEN redisExpireIn(r1, key, windowMs \div MsPerSecond)
                           ELSE r1
                 IN IF overLimit(requests, limit)
                    THEN Decision(429, r2)
                    ELSE Decision(200, r2)

Hit(ip, path, fail) ==
    LET d == rateLimiter(Limit, WindowMsOf(path), RateKey(ip, path), fail)
    IN /\ redisCount(redis, RateKey(ip, path)) < MaxCount
       /\ redis' = d.redis
       /\ res' = Response("rateLimiter", d.status, ip \o ":" \o path, NoToken, NoToken)
       /\ UNCHANGED <<now, users, inflight, admitted, products>>

\* the store reachable
NextRate ==
    \/ Tick
    \/ \E ip \in Ips, path \in Paths : Hit(ip, path, "none")

SpecRate == Init /\ [][NextRate]_vars

\* the store's calls may throw
NextRateFail ==
    \/ Tick
    \/ \E ip \in Ips, path \in Paths, fail \in {"none", "incr", "expire"} : Hit(ip, path, fail)

SpecRateFail == Init /\ [][NextRateFail]_vars

RateKeys == {k \in DOMAIN redis : k[1] = "ratelimit"}

RateKeyOfRes == Key("ratelimit", res.sub)

\* C11: within one window of a client+route key the first `limit` requests
\* are passed on and every later one is answered 429: the n-th request since
\* the key was created gets 429 exactly when n > limit.
C11_LimitThenThrottle ==
    [][res'.op = "rateLimiter" =>
          \A ip \in Ips, path \in Paths :
              Hit(ip, path, "none") =>
                  LET n == redisCount(redis, RateKey(ip, path)) + 1
                  IN /\ redisCount(redis', RateKey(ip, path)) = n
                     /\ n <= Limit => res'.status = 200
                     /\ n > Limit => res'.status = 429]_vars

\* the request after `limit` requests in the window was answered 429
C11_Witness ==
    /\ res.op = "rateLimiter"
    /\ res.status = 429
    /\ RateKeyOfRes \in DOMAIN redis
    /\ redis[RateKeyOfRes].val = Limit + 1
    /\ redis[RateKeyOfRes].exp # NoTtl
WindowElapsed(ip, path) ==
    /\ RateKey(ip, path) \in DOMAIN redis
    /\ (now - redis[RateKey(ip, path)].since) * MsPerSecond >= WindowMsOf(path)

\* C12: once the window that began with a key's first hit has elapsed, the
\* counter of that key is reset and the next request of that client+route is
\* passed on, throttled before or not.
C12_WindowReset ==
    \A ip \in Ips, path \in Paths :
        (RateKey(ip, path) \notin DOMAIN redis \/ WindowElapsed(ip, path)) =>
            /\ redisCount(redis, RateKey(ip, path)) = 0
            /\ rateLimiter(Limit, WindowMsOf(path), RateKey(ip, path), "none").status = 200
\* the store call named by fail is reached and throws
Throws(fail, requests) == fail = "incr" \/ (fail = "expire" /\ requests = 1)

\* C13: rateLimiter fails open: when the increment or the expire call throws,
\* the request is passed on to the next handler and no 429 or error response
\* is sent.
C13_FailOpen ==
    [][res'.op = "rateLimiter" =>
          \A ip \in Ips, path \in Paths, fail \in {"incr", "expire"} :
              (/\ Throws(fail, redisCount(redis, RateKey(ip, path)) + 1)
               /\ Hit(ip, path, fail))
                  => res'.status = 200]_vars

\* a first hit on the whole-second route was passed on although its expire
\* call threw: the key is left without a time-to-live
C13_Witness ==
    /\ res.op = "rateLimiter"
    /\ res.status = 200
    /\ res.sub = "10.0.0.1:/login"
    /\ RateKeyOfRes \in DOMAIN redis
    /\ redis[RateKeyOfRes].val = 1
    /\ redis[RateKeyOfRes].exp = NoTtl
\* ---------------------------------------------------------------- claims, continued
Rejection(status, message) == Outcome(status, message, users, redis, NoToken, NoToken)

\* C14: login answers an unknown email and a wrong password for a known
\* email, verified or not, with the same 401 and message, issues no token and
\* writes nothing.
C14_LoginSameRejection ==
    /\ \A e \in Emails, p \in LoginPasswords :
          (~users[e].exists \/ ~comparePassword(users[e], p)) =>
              login(e, p) = Rejection(401, "Invalid credentials")
    /\ (res.op = "login" /\ res.status = 401) =>
          (res.access = NoToken /\ res.refresh = NoToken)

\* a login was answered 401 for a known, unverified email while another email
\* is unknown, and both logins get the same answer
C14_Witness ==
    /\ res.op = "login"
    /\ res.status = 401
    /\ \E known \in Emails, unknown \in Emails :
          /\ users[known].exists /\ ~users[known].isEmailVerified
          /\ IdOf(known) = res.sub
          /\ ~users[unknown].exists
          /\ login(known, "wrong-guess") = login(unknown, "wrong-guess")

\* C15: login never succeeds for an unverified principal: with the correct
\* password it is answered 403, issues no token and leaves the store as it is.
C15_LoginNeedsVerification ==
    /\ \A e \in Emails, p \in LoginPasswords :
          (users[e].exists /\ ~users[e].isEmailVerified) =>
              /\ login(e, p).status # 200
              /\ comparePassword(users[e], p) =>
                    login(e, p) = Rejection(403, "Please verify your email first")
    /\ (res.op = "login" /\ res.status = 200) => findById(res.sub).isEmailVerified

\* a login with the correct password was answered 403 and the refresh token
\* stored at registration is still there
C15_Witness ==
    /\ res.op = "login"
    /\ res.status = 403
    /\ res.access = NoToken /\ res.refresh = NoToken
    /\ ~findById(res.sub).isEmailVerified
    /\ Key("refresh", res.sub) \in DOMAIN redis

\* C16: a successful refresh returns a new access token only and leaves
\* refresh:<subjectId> as it was, so the stored refresh token passes refresh
\* again.
C16_RefreshDoesNotRotate ==
    [][(res'.op = "refresh" /\ res'.status = 200) =>
          \A t \in Tokens :
              Refresh(t) =>
                  /\ redis' = redis
                  /\ users' = users
                  /\ res'.refresh = NoToken
                  /\ res'.access # NoToken
                  /\ StoredRefresh(t.userId) = t
                  /\ (refreshToken(t).status = 200)']_vars

\* a refresh answered 200 right after a successful refresh of the same subject
C16_Witness ==
    /\ res.op = "refresh"
    /\ res.status = 200
    /\ res.after = "refresh"
    /\ refreshToken(StoredRefresh(res.sub)).status = 200

\* C17: a successful register creates one user record with
\* isEmailVerified = false, stores the verification token under verify:<id>
\* with the verification lifetime and the returned refresh token under
\* refresh:<id>; a refresh with that token then succeeds although the email is
\* unverified.
C17_RegisterEffects ==
    [][(res'.op = "register" /\ res'.status = 201) =>
          \A e \in Emails, p \in RegisterPasswords :
              Register(e, p) =>
                  /\ ~users[e].exists
                  /\ users'[e].exists
                  /\ ~users'[e].isEmailVerified
                  /\ users'[e].password = bcryptHash(p)
                  /\ \A o \in Emails \ {e} : users'[o] = users[o]
                  /\ Key("verify", IdOf(e)) \in DOMAIN redis'
                  /\ redis'[Key("verify", IdOf(e))] =
                        [val |-> [userId |-> IdOf(e), email |-> e, role |-> "-",
                                  iat |-> now, exp |-> now + VerifyJwtTtl,
                                  sig |-> JWT_SECRET],
                         exp |-> now + VerifyRedisTtl]
                  /\ Key("refresh", IdOf(e)) \in DOMAIN redis'
                  /\ redis'[Key("refresh", IdOf(e))].val = res'.refresh
                  /\ RefreshKind(res'.refresh)
                  /\ (refreshToken(res.refresh).status = 200)']_vars

\* a refresh answered 200 right after that subject's register, the email
\* still unverified
C17_Witness ==
    /\ res.op = "refresh"
    /\ res.status = 200
    /\ res.after = "register"
    /\ findById(res.sub).exists
    /\ ~findById(res.sub).isEmailVerified
    /\ Key("verify", res.sub) \in DOMAIN redis

\* C18: verifyEmail with a token that verifies and equals the value under
\* verify:<subjectId> sets isEmailVerified and deletes the key; with any other
\* token it is answered 400 and changes neither the users nor the store.
C18_VerifyEmailOutcomes ==
    \A t \in Tokens \cup {NoToken} :
        LET o == verifyEmail(t)
            k == Key("verify", t.userId)
        IN IF Verifies(t) /\ k \in DOMAIN redis /\ redis[k].val = t
           THEN /\ o.status = 200
                /\ o.users[EmailOf(t.userId)].isEmailVerified
                /\ \A e \in Emails \ {EmailOf(t.userId)} : o.users[e] = users[e]
                /\ k \notin DOMAIN o.redis
                /\ \A x \in DOMAIN redis \ {k} : x \in DOMAIN o.redis /\ o.redis[x] = redis[x]
           ELSE /\ o.status = 400
                /\ o.users = users
                /\ o.redis = redis

\* a verifyEmail was answered 200: the user is verified and the key is gone,
\* and a verifying token of that subject is now answered 400
C18_Witness ==
    /\ res.op = "verifyEmail"
    /\ res.status = 200
    /\ findById(res.sub).isEmailVerified
    /\ Key("verify", res.sub) \notin DOMAIN redis
    /\ \E t \in Tokens :
          /\ Verifies(t) /\ SubjectOf(t) = res.sub
          /\ verifyEmail(t).status = 400
\* ---------------------------------------------------------------- password reset
\* `reset:<id>` lives for 300 s, scaled to the clock of the model
ResetRedisTtl == 2

\* what generateOTP() may return
Otps == {"135790", "246801"}

\* a request that keeps the code of an earlier, still pending request
requestPasswordResetKeepOld(email, otp) ==
    IF ~users[email].exists
    THEN Outcome(404, "User not found", users, redis, NoToken, NoToken)
    ELSE Outcome(200, "Password reset OTP sent", users,
                 redisSetExKeepExisting(redis, Key("reset", IdOf(email)), ResetRedisTtl, otp),
                 NoToken, NoToken)

requestPasswordReset(email, otp) ==
    IF ~users[email].exists
    THEN Outcome(404, "User not found", users, redis, NoToken, NoToken)
    ELSE Outcome(200, "Password reset OTP sent", users,
                 redisSetEx(redis, Key("reset", IdOf(email)), ResetRedisTtl, otp),
                 NoToken, NoToken)

RequestPasswordReset(email, otp) ==
    Apply("requestPasswordReset", IdOf(email), requestPasswordReset(email, otp))

NextReset ==
    \/ Tick
    \/ \E e \in Emails, p \in RegisterPasswords : Register(e, p)
    \/ \E e \in Emails, otp \in Otps : RequestPasswordReset(e, otp)

SpecReset == Init /\ [][NextReset]_vars

ResetKeys == {k \in DOMAIN redis : k[1] = "reset"}

\* every pending code was stored at most ResetRedisTtl ago and is not overdue
ResetFresh == \A k \in ResetKeys : now < redis[k].exp /\ redis[k].exp <= now + ResetRedisTtl

\* C19: requestPasswordReset for an unknown email is answered 404 and writes
\* nothing; for a known email it puts the new code under reset:<subjectId>
\* with the reset lifetime, replacing an earlier code, so that the key holds
\* the code of the latest request and no code outlives that lifetime.
C19_ResetCodeLatestOnly ==
    [][/\ ResetFresh'
       /\ (res'.op = "requestPasswordReset") =>
             \A e \in Emails, otp \in Otps :
                 RequestPasswordReset(e, otp) =>
                     IF ~users[e].exists
                     THEN res'.status = 404 /\ redis' = redis /\ users' = users
                     ELSE /\ res'.status = 200
                          /\ users' = users
                          /\ DOMAIN redis' = DOMAIN redis \cup {Key("reset", IdOf(e))}
                          /\ redis'[Key("reset", IdOf(e))] =
                                [val |-> otp, exp |-> now + ResetRedisTtl]
                          /\ \A x \in DOMAIN redis \ {Key("reset", IdOf(e))} :
                                redis'[x] = redis[x]]_vars

\* a second request of the same subject was answered 200 later than the
\* start, and the code it stored has the full lifetime ahead
C19_Witness ==
    /\ res.op = "requestPasswordReset"
    /\ res.status = 200
    /\ res.after = "requestPasswordReset"
    /\ now > 0
    /\ Key("reset", res.sub) \in ResetKeys
    /\ redis[Key("reset", res.sub)].exp = now + ResetRedisTtl
\* ---------------------------------------------------------------- authenticate alone
StoreFailures == {"none", "get"}

\* a request that stops at, or passes, the middleware
Authenticate(hdr, fail) ==
    LET a == authenticateStore(hdr, fail)
    IN /\ res' = Response("authenticate", a.status, SubjectOf(hdr.token), NoToken, NoToken)
       /\ UNCHANGED <<now, users, redis, inflight, admitted, products>>

NextAuth ==
    \/ Tick
    \/ \E e \in Emails, p \in RegisterPasswords : Register(e, p)
    \/ \E h \in Headers, fail \in StoreFailures : Authenticate(h, fail)

SpecAuth == Init /\ [][NextAuth]_vars

Expired(token) == token.sig = JWT_SECRET /\ now >= token.exp

\* C20: authenticate answers a correctly signed token whose expiry has passed
\* with 401 "Token has expired" and a malformed or wrongly signed token with
\* 401 "Invalid token", whether or not the store can be read (verification
\* comes before the blacklist lookup), and every outcome is next() or a 401.
C20_VerifyOutcomes ==
    \A h \in Headers, fail \in StoreFailures :
        LET a == authenticateStore(h, fail)
        IN /\ a.next \/ a.status = 401
           /\ (h.scheme = "Bearer" /\ Expired(h.token)) => a = Rejected("Token has expired")
           /\ (h.scheme = "Bearer" /\ h.token.sig # JWT_SECRET) => a = Rejected("Invalid token")
           /\ a.next => jwtVerify(h.token) = "ok"

\* a request of a registered subject was turned away with 401 when a token of
\* that subject has run out: it is answered "Token has expired" even while
\* the store cannot be read, and a forged one "Invalid token"
C20_Witness ==
    /\ res.op = "authenticate"
    /\ res.status = 401
    /\ \E t \in AccessTokens :
          /\ SubjectOf(t) = res.sub
          /\ Expired(t)
          /\ authenticateStore(Bearer(t), "get").message = "Token has expired"
    /\ authenticateStore(Bearer(ForgedToken), "get").message = "Invalid token"
\* ---------------------------------------------------------------- api gateway
GatewayRoutes == {"/api/orders", "/api/payments", "/api/users", "/api/shipping"}

\* the account whose tokens are presented at the gateway
GatewayEmails == {"a@x.io"}

\* the gateway's own authenticate: the second word of the header, jwt.verify,
\* next(); every error is answered 401 "Invalid token"
gatewayAuthenticate(hdr) ==
    IF hdr.scheme = "-" THEN Rejected("Authentication required")
    ELSE IF jwtVerify(hdr.token) # "ok" THEN Rejected("Invalid token")
    ELSE [next |-> TRUE, status |-> 200, message |-> "-", user |-> hdr.token]

\* app.use(route, authenticate, createProxyMiddleware(...)): status 200 stands
\* for the request handed to the proxy
Gateway(route, hdr) ==
    LET a == gatewayAuthenticate(hdr)
    IN /\ res' = Response(route, a.status, SubjectOf(hdr.token), NoToken, NoToken)
       /\ UNCHANGED <<now, users, redis, inflight, admitted, products>>

NextGateway ==
    \/ Tick
    \/ \E e \in GatewayEmails, p \in RegisterPasswords : Register(e, p)
    \/ \E t \in AccessTokens : blacklist(t)
    \/ \E route \in GatewayRoutes, h \in Headers : Gateway(route, h)

SpecGateway == Init /\ [][NextGateway]_vars

\* C21: a request reaches the business logic behind a protected route only
\* with a bearer token that has passed verification and then the revocation
\* lookup: the gateway hands on no token that is blacklisted, and nothing
\* that the auth service's authenticate would turn away.
C21_ForwardOnlyUnrevoked ==
    \A h \in Headers :
        gatewayAuthenticate(h).next =>
            /\ Verifies(h.token)
            /\ ~isBlacklisted(redis, h.token)
            /\ authenticate(h).next
\* ---------------------------------------------------------------- collaborator failures
\* what error.message of a thrown driver error may read
ExceptionTexts == {"connect ECONNREFUSED 10.0.0.5:6379",
                   "E11000 duplicate key error collection: auth.users"}

NoDetail == "-"

AuthHandlers == {"register", "login", "logout", "refreshToken", "verifyEmail",
                 "requestPasswordReset"}

ProductHandlers == {"createProduct", "getProducts", "getProductById", "getProductBySlug",
                    "updateProduct", "deleteProduct", "searchProducts",
                    "getSimilarProducts", "updateInventory"}

\* the JSON a catch block answers with: `message` and, where present, `error`
Body(status, message, error) == [status |-> status, message |-> message, error |-> error]

\* the catch block of each handler, given error.message
catchBody(handler, text) ==
    IF handler = "register" THEN Body(500, "Internal server error", text)
    ELSE IF handler \in {"login", "logout", "requestPasswordReset"}
    THEN Body(500, "Internal server error", NoDetail)
    ELSE IF handler = "refreshToken" THEN Body(401, "Invalid refresh token", NoDetail)
    ELSE IF handler = "verifyEmail"
    THEN Body(400, "Invalid or expired verification token", NoDetail)
    ELSE Body(500, IF text # "" THEN text ELSE "Internal server error", NoDetail)

\* the points of register, after the existence check, at which a collaborator
\* may throw
RegisterFailures == {"save", "setExVerify", "sendVerificationEmail", "setExRefresh"}

registerWith(email, password, fail) ==
    IF fail = "none" \/ users[email].exists \/ Len(password) < MinPasswordLength
    THEN register(email, password)
    ELSE LET id == IdOf(email)
             saved == [users EXCEPT ![email] = NewUser(password)]
             r1 == redisSetEx(redis, Key("verify", id), VerifyRedisTtl,
                              SignVerification(id, email))
         IN IF fail = "save"
            THEN Outcome(500, "Internal server error", users, redis, NoToken, NoToken)
            ELSE IF fail = "setExVerify"
            THEN Outcome(500, "Internal server error", saved, redis, NoToken, NoToken)
            ELSE Outcome(500, "Internal server error", saved, r1, NoToken, NoToken)

RegisterWith(email, password, fail) ==
    Apply("register", IdOf(email), registerWith(email, password, fail))

\* the first collaborator call of a handler throws: nothing has been written
HandlerThrows(handler, text) ==
    /\ res' = Response(handler, catchBody(handler, text).status, "-", NoToken, NoToken)
    /\ UNCHANGED <<now, users, redis, inflight, admitted, products>>

NextFail ==
    \/ Tick
    \/ \E e \in Emails, p \in RegisterPasswords, fail \in RegisterFailures \cup {"none"} :
          RegisterWith(e, p, fail)
    \/ \E h \in AuthHandlers \cup ProductHandlers, text \in ExceptionTexts :
          HandlerThrows(h, text)

SpecFail == Init /\ [][NextFail]_vars

Leaks(body, text) == body.message = text \/ body.error = text

\* C22: whatever a collaborator throws, the response of every handler
\* carries a fixed message and never the text of the exception.
C22_NoInternalDetail ==
    [][\A h \in AuthHandlers \cup ProductHandlers, text \in ExceptionTexts :
          HandlerThrows(h, text) =>
              /\ ~Leaks(catchBody(h, text), text)
              /\ catchBody(h, text).error = NoDetail]_vars
\* C30: a register answered 500 leaves no user record for that email, so the
\* same email can be registered again.
C30_RegisterAllOrNothing ==
    [][(res'.op = "register" /\ res'.status = 500) =>
          \A e \in Emails, p \in RegisterPasswords, fail \in RegisterFailures :
              (RegisterWith(e, p, fail) /\ ~users[e].exists) =>
                  /\ ~users'[e].exists
                  /\ (register(e, "correct-horse").status = 201)']_vars
\* ---------------------------------------------------------------- concurrent logins
\* login as the steps between which another request may run: the checks and
\* jwt.sign, the SETEX arriving at the store, the response
LoginBegin(p, email, password) ==
    /\ inflight[p].pc = "idle"
    /\ LET o == login(email, password)
       IN IF o.status # 200
          THEN Apply("login", IdOf(email), o)
          ELSE /\ inflight' = [inflight EXCEPT ![p] =
                     [pc |-> "signed", op |-> "login", sub |-> IdOf(email),
                      token |-> o.access, refresh |-> o.refresh, n |-> 0, since |-> now,
                      status |-> 0, password |-> "-"]]
               /\ UNCHANGED <<now, users, redis, res, admitted, products>>

LoginSetEx(p) ==
    /\ inflight[p].op = "login"
    /\ inflight[p].pc = "signed"
    /\ redis' = redisSetEx(redis, Key("refresh", inflight[p].sub), RefreshRedisTtl,
                           inflight[p].refresh)
    /\ inflight' = [inflight EXCEPT ![p].pc = "stored"]
    /\ UNCHANGED <<now, users, res, admitted, products>>

LoginRespond(p) ==
    /\ inflight[p].op = "login"
    /\ inflight[p].pc = "stored"
    /\ res' = Response("login", 200, inflight[p].sub, inflight[p].token, inflight[p].refresh)
    /\ inflight' = [inflight EXCEPT ![p].pc = "done", ![p].status = 200]
    /\ UNCHANGED <<now, users, redis, admitted, products>>

\* the account the concurrent requests are about
RacingEmails == {"a@x.io"}

NextLogins ==
    \/ Tick
    \/ \E e \in RacingEmails, p \in RegisterPasswords : Register(e, p)
    \/ \E t \in Tokens : VerifyEmail(t)
    \/ \E p \in Procs, e \in RacingEmails, pw \in LoginPasswords : LoginBegin(p, e, pw)
    \/ \E p \in Procs : LoginSetEx(p)
    \/ \E p \in Procs : LoginRespond(p)

SpecLogins == Init /\ [][NextLogins]_vars

\* two logins of one subject have both been answered 200 and neither refresh
\* token has expired
BothLoggedIn(p, q) ==
    /\ p # q
    /\ inflight[p].op = "login" /\ inflight[q].op = "login"
    /\ inflight[p].pc = "done" /\ inflight[q].pc = "done"
    /\ inflight[p].sub = inflight[q].sub
    /\ Verifies(inflight[p].refresh) /\ Verifies(inflight[q].refresh)

\* C23: after two concurrent logins of one subject have both succeeded,
\* refresh:<subjectId> holds exactly one of the two issued refresh tokens, and
\* a refresh succeeds with that one and fails with the other.
C23_ConcurrentLoginsOneSession ==
    \A p \in Procs, q \in Procs :
        BothLoggedIn(p, q) =>
            /\ StoredRefresh(inflight[p].sub) \in {inflight[p].refresh, inflight[q].refresh}
            /\ (refreshToken(inflight[p].refresh).status = 200)
                  # (refreshToken(inflight[q].refresh).status = 200)
\* ---------------------------------------------------------------- concurrent rateLimiter
\* rateLimiter as the steps between which another request may run: INCR, the
\* EXPIRE of the request that read 1, the comparison with the limit
\* (the keys do not touch each other: requests start on one key at a time)
RouteOf(sub) == CHOOSE path \in Paths : \E ip \in Ips : sub = ip \o ":" \o path

RateIncr(p, ip, path) ==
    /\ inflight[p].pc = "idle"
    /\ redisCount(redis, RateKey(ip, path)) < MaxCount
    /\ RateKeys \subseteq {RateKey(ip, path)}
    /\ redis' = redisIncr(redis, RateKey(ip, path))
    /\ inflight' = [inflight EXCEPT ![p] =
          [pc |-> "incremented", op |-> "rateLimiter", sub |-> ip \o ":" \o path,
           token |-> NoToken, refresh |-> NoToken,
           n |-> redisCount(redis, RateKey(ip, path)) + 1,
           since |-> redis'[RateKey(ip, path)].since, status |-> 0, password |-> "-"]]
    /\ UNCHANGED <<now, users, res, admitted, products>>

RateExpire(p) ==
    /\ inflight[p].op = "rateLimiter"
    /\ inflight[p].pc = "incremented"
    /\ inflight[p].n = 1
    /\ IF expireThrows(WindowMsOf(RouteOf(inflight[p].sub)), "none")
       THEN /\ inflight' = [inflight EXCEPT ![p].pc = "caught"]
            /\ UNCHANGED redis
       ELSE /\ redis' = redisExpireIn(redis, Key("ratelimit", inflight[p].sub),
                                      WindowMsOf(RouteOf(inflight[p].sub)) \div MsPerSecond)
            /\ inflight' = [inflight EXCEPT ![p].pc = "expiring"]
    /\ UNCHANGED <<now, users, res, admitted, products>>

RateDecide(p) ==
    /\ inflight[p].op = "rateLimiter"
    /\ \/ inflight[p].pc \in {"expiring", "caught"}
       \/ inflight[p].pc = "incremented" /\ inflight[p].n # 1
    /\ LET d == IF inflight[p].pc = "caught" THEN rateLimiterCatch(redis)
                ELSE IF overLimit(inflight[p].n, Limit) THEN Decision(429, redis)
                ELSE Decision(200, redis)
       IN res' = Response("rateLimiter", d.status, inflight[p].sub, NoToken, NoToken)
    /\ inflight' = [inflight EXCEPT ![p] = Idle]
    /\ UNCHANGED <<now, users, redis, admitted, products>>

NextRateRace ==
    \/ Tick
    \/ \E p \in Procs, ip \in Ips, path \in Paths : RateIncr(p, ip, path)
    \/ \E p \in Procs : RateExpire(p)
    \/ \E p \in Procs : RateDecide(p)

SpecRateRace == Init /\ [][NextRateRace]_vars

\* two requests in flight on the same key in the same window have read
\* different counter values
DistinctCounts ==
    \A p \in Procs, q \in Procs :
        (/\ p # q
         /\ inflight[p].op = "rateLimiter" /\ inflight[q].op = "rateLimiter"
         /\ inflight[p].sub = inflight[q].sub
         /\ inflight[p].since = inflight[q].since) => inflight[p].n # inflight[q].n

\* C24: concurrent requests on one client+route key read distinct counter
\* values, a request is admitted only with a value of at most `limit`, and the
\* time-to-live of the key is set by the request that read 1 and by no other:
\* when that request is answered, the key has its time-to-live.
C24_ConcurrentRateLimiter ==
    [][/\ DistinctCounts'
       /\ \A p \in Procs :
             /\ RateDecide(p) =>
                   /\ res'.status = 200 => inflight[p].n <= Limit
                   /\ (/\ inflight[p].n = 1
                       /\ Key("ratelimit", inflight[p].sub) \in RateKeys
                       /\ redis[Key("ratelimit", inflight[p].sub)].since = inflight[p].since) =>
                         redis[Key("ratelimit", inflight[p].sub)].exp # NoTtl
             /\ (RateExpire(p) /\ redis' # redis) => inflight[p].n = 1
       /\ \A k \in RateKeys :
             (k \in DOMAIN redis' /\ redis'[k].exp # redis[k].exp) =>
                 \E p \in Procs : RateExpire(p) /\ Key("ratelimit", inflight[p].sub) = k]_vars
\* ---------------------------------------------------------------- claims on the window
\* C25: only the first hit of a window sets the time-to-live of the key; a
\* later hit of that window, passed on or throttled, adds one to the counter
\* and leaves the time-to-live as it is, so that the window ends exactly
\* windowMs after its first hit.
C25_WindowFixedByFirstHit ==
    [][res'.op = "rateLimiter" =>
          \A ip \in Ips, path \in Paths :
              Hit(ip, path, "none") =>
                  LET k == RateKey(ip, path)
                  IN /\ k \in DOMAIN redis =>
                           /\ redis'[k].exp = redis[k].exp
                           /\ redis'[k].since = redis[k].since
                           /\ redis'[k].val = redis[k].val + 1
                     /\ k \notin DOMAIN redis => redis'[k].val = 1 /\ redis'[k].since = now
                     /\ (redis'[k].exp - redis'[k].since) * MsPerSecond = WindowMsOf(path)]_vars
\* ---------------------------------------------------------------- concurrent verifyEmail
\* verifyEmail as the steps between which another request may run: jwt.verify
\* and the GET with its comparison, findByIdAndUpdate, DEL, the response
VerifyBegin(p, token) ==
    /\ inflight[p].pc = "idle"
    /\ IF verifyEmail(token).status # 200
       THEN Apply("verifyEmail", SubjectOf(token), verifyEmail(token))
       ELSE /\ inflight' = [inflight EXCEPT ![p] =
                  [pc |-> "matched", op |-> "verifyEmail", sub |-> token.userId,
                   token |-> token, refresh |-> NoToken, n |-> 0, since |-> now,
                   status |-> 0, password |-> "-"]]
            /\ UNCHANGED <<now, users, redis, res, admitted, products>>

VerifyUpdate(p) ==
    /\ inflight[p].op = "verifyEmail"
    /\ inflight[p].pc = "matched"
    /\ users' = verifyConsume(inflight[p].sub).users
    /\ inflight' = [inflight EXCEPT ![p].pc = "updated"]
    /\ UNCHANGED <<now, redis, res, admitted, products>>

VerifyDel(p) ==
    /\ inflight[p].op = "verifyEmail"
    /\ inflight[p].pc = "updated"
    /\ redis' = redisDel(redis, Key("verify", inflight[p].sub))
    /\ inflight' = [inflight EXCEPT ![p].pc = "deleted"]
    /\ UNCHANGED <<now, users, res, admitted, products>>

VerifyRespond(p) ==
    /\ inflight[p].op = "verifyEmail"
    /\ inflight[p].pc = "deleted"
    /\ res' = Response("verifyEmail", 200, inflight[p].sub, NoToken, NoToken)
    /\ inflight' = [inflight EXCEPT ![p].pc = "done", ![p].status = 200]
    /\ UNCHANGED <<now, users, redis, admitted, products>>

NextVerifyRace ==
    \/ Tick
    \/ \E e \in RacingEmails, p \in RegisterPasswords : Register(e, p)
    \/ \E p \in Procs, t \in Tokens : VerifyBegin(p, t)
    \/ \E p \in Procs : VerifyUpdate(p)
    \/ \E p \in Procs : VerifyDel(p)
    \/ \E p \in Procs : VerifyRespond(p)

SpecVerifyRace == Init /\ [][NextVerifyRace]_vars

\* C26: of two concurrent verifyEmail requests that present the same valid
\* token at most one is answered with success.
C26_VerifyOnceUnderConcurrency ==
    \A p \in Procs, q \in Procs :
        (/\ p # q
         /\ inflight[p].op = "verifyEmail" /\ inflight[q].op = "verifyEmail"
         /\ inflight[p].token = inflight[q].token)
            => ~(inflight[p].status = 200 /\ inflight[q].status = 200)
\* ---------------------------------------------------------------- admissions over time
\* `admitted` keeps, for every request the limiter passed on, the key, the
\* second of the request, the start of the key's window and the counter value
\* the request read.  The keys of the limiter do not touch each other: a
\* behaviour follows the requests of one key.
HitLogged(ip, path) ==
    LET d == rateLimiter(Limit, WindowMsOf(path), RateKey(ip, path), "none")
        k == RateKey(ip, path)
    IN /\ redisCount(redis, k) < MaxCount
       /\ RateKeys \subseteq {k}
       /\ redis' = d.redis
       /\ res' = Response("rateLimiter", d.status, ip \o ":" \o path, NoToken, NoToken)
       /\ admitted' = IF d.status = 200
                      THEN admitted \cup {[sub |-> ip \o ":" \o path, at |-> now,
                                           since |-> d.redis[k].since, n |-> d.redis[k].val]}
                      ELSE admitted
       /\ UNCHANGED <<now, users, inflight, products>>

NextRateLog ==
    \/ Tick
    \/ \E ip \in Ips, path \in Paths : HitLogged(ip, path)

SpecRateLog == Init /\ [][NextRateLog]_vars

\* the admissions of one key whose seconds lie within one windowMs of `from`
AdmittedWithin(sub, from) ==
    {a \in admitted : /\ a.sub = sub
                      /\ a.at >= from
                      /\ (a.at - from) * MsPerSecond <= WindowMsOf(RouteOf(sub))}

\* C27: with the store reachable, no interval of length windowMs admits more
\* than 2 * limit requests of one key, and an interval that admits more than
\* `limit` holds admissions of two windows.
C27_AtMostTwiceLimit ==
    \A ip \in Ips, path \in Paths, from \in 0..MaxTime :
        LET within == AdmittedWithin(ip \o ":" \o path, from)
        IN /\ Cardinality(within) <= 2 * Limit
           /\ Cardinality(within) > Limit => \E a \in within, b \in within : a.since # b.since

\* some interval of length windowMs has admitted more than `limit` requests
\* of one key, across a window boundary
C27_Witness ==
    \E ip \in Ips, path \in Paths, from \in 0..MaxTime :
        /\ Cardinality(AdmittedWithin(ip \o ":" \o path, from)) > Limit
        /\ res.op = "rateLimiter"
        /\ res.status = 200
\* ---------------------------------------------------------------- authorize
\* the role lists a route may be guarded with
RoleLists == {{"admin"}, {"customer", "admin"}, {"seller", "admin"}}

\* what req.user may hold when authorize runs: nothing, or the payload
\* authenticate has decoded
ReqUsers == {NoToken} \cup {t \in Tokens : authenticate(Bearer(t)).next}

\* authorize that only asks for a user
authorizeAnyRole(roles, user) ==
    IF user = NoToken
    THEN [next |-> FALSE, status |-> 401, message |-> "Unauthorized", user |-> user]
    ELSE [next |-> TRUE, status |-> 200, message |-> "-", user |-> user]

authorize(roles, user) ==
    IF user = NoToken
    THEN [next |-> FALSE, status |-> 401, message |-> "Unauthorized", user |-> user]
    ELSE IF user.role \notin roles
    THEN [next |-> FALSE, status |-> 403,
          message |-> "Forbidden: Insufficient permissions", user |-> user]
    ELSE [next |-> TRUE, status |-> 200, message |-> "-", user |-> user]

Authorize(roles, user) ==
    /\ res' = Response("authorize", authorize(roles, user).status, SubjectOf(user),
                       NoToken, NoToken)
    /\ UNCHANGED <<now, users, redis, inflight, admitted, products>>

NextAuthorize ==
    \/ Tick
    \/ \E e \in Emails, p \in RegisterPasswords : Register(e, p)
    \/ \E roles \in RoleLists, user \in ReqUsers : Authorize(roles, user)

SpecAuthorize == Init /\ [][NextAuthorize]_vars

\* C28: authorize(...roles) calls the next handler only when req.user is set
\* and its role is one of the listed roles; without req.user it answers 401,
\* with another role 403, and in both cases the handler is not called.
C28_AuthorizeGate ==
    \A roles \in RoleLists, user \in ReqUsers :
        LET z == authorize(roles, user)
        IN /\ z.next <=> (user # NoToken /\ user.role \in roles)
           /\ user = NoToken => (z.status = 401 /\ ~z.next)
           /\ (user # NoToken /\ user.role \notin roles) => (z.status = 403 /\ ~z.next)

\* a request of an authenticated customer was answered 403 by a route that
\* lists other roles, while a route that lists customer lets it through
C28_Witness ==
    /\ res.op = "authorize"
    /\ res.status = 403
    /\ \E user \in ReqUsers :
          /\ user # NoToken
          /\ SubjectOf(user) = res.sub
          /\ user.role = "customer"
          /\ ~authorize({"admin"}, user).next
          /\ authorize({"customer", "admin"}, user).next
\* C29: every ratelimit:<client>:<path> key with a counter of at least 1 has
\* a time-to-live, also after the expire call of a first hit has failed, so
\* that no client stays throttled for ever.
C29_EveryKeyHasTtl ==
    \A k \in RateKeys : redis[k].val >= 1 => redis[k].exp # NoTtl
\* ---------------------------------------------------------------- concurrent register
\* the unique index on email refuses the insert of a second document
duplicateKeyNoIndex(u, email) == FALSE

duplicateKey(u, email) == u[email].exists

\* the passwords of the racing requests: both pass the schema
RacingPasswords == {"correct-horse", "battery-staple"}

\* register as the steps between which another request may run: findOne,
\* user.save, and the rest up to the response
RegisterBegin(p, email, password) ==
    /\ inflight[p].pc = "idle"
    /\ IF users[email].exists
       THEN Apply("register", IdOf(email), register(email, password))
       ELSE /\ inflight' = [inflight EXCEPT ![p] =
                  [pc |-> "checked", op |-> "register", sub |-> email,
                   token |-> NoToken, refresh |-> NoToken, n |-> 0, since |-> now,
                   status |-> 0, password |-> password]]
            /\ UNCHANGED <<now, users, redis, res, admitted, products>>

RegisterSave(p) ==
    /\ inflight[p].op = "register"
    /\ inflight[p].pc = "checked"
    /\ IF duplicateKey(users, inflight[p].sub)
       THEN /\ res' = Response("register", catchBody("register", "E11000").status,
                               IdOf(inflight[p].sub), NoToken, NoToken)
            /\ inflight' = [inflight EXCEPT ![p].pc = "done", ![p].status = 500]
            /\ UNCHANGED users
       ELSE /\ users' = [users EXCEPT ![inflight[p].sub] = NewUser(inflight[p].password)]
            /\ inflight' = [inflight EXCEPT ![p].pc = "saved"]
            /\ UNCHANGED res
    /\ UNCHANGED <<now, redis, admitted, products>>

RegisterFinish(p) ==
    /\ inflight[p].op = "register"
    /\ inflight[p].pc = "saved"
    /\ LET o == registerCreate(inflight[p].sub, inflight[p].password)
       IN /\ redis' = o.redis
          /\ res' = Response("register", o.status, IdOf(inflight[p].sub), o.access, o.refresh)
          /\ inflight' = [inflight EXCEPT ![p].pc = "done", ![p].status = o.status,
                                          ![p].token = o.access, ![p].refresh = o.refresh]
    /\ UNCHANGED <<now, users, admitted, products>>

NextRegisterRace ==
    \/ Tick
    \/ \E p \in Procs, e \in RacingEmails, pw \in RacingPasswords : RegisterBegin(p, e, pw)
    \/ \E p \in Procs : RegisterSave(p)
    \/ \E p \in Procs : RegisterFinish(p)

SpecRegisterRace == Init /\ [][NextRegisterRace]_vars

\* C31: there is one user record per email also when two register requests
\* for it run concurrently: at most one of them is answered 201, and the
\* record is the one that request saved.
C31_OneRecordPerEmail ==
    \A p \in Procs, q \in Procs :
        (inflight[p].op = "register" /\ inflight[p].status = 201) =>
            /\ users[inflight[p].sub] = NewUser(inflight[p].password)
            /\ (q # p /\ inflight[q].op = "register" /\ inflight[q].sub = inflight[p].sub)
                  => inflight[q].status # 201

\* both requests passed the existence check; one was answered 201, the other
\* lost at the unique index
C31_Witness ==
    \E p \in Procs, q \in Procs :
        /\ inflight[p].op = "register" /\ inflight[q].op = "register"
        /\ inflight[p].sub = inflight[q].sub
        /\ inflight[p].password # inflight[q].password
        /\ inflight[p].status = 201
        /\ inflight[q].status = 500
\* ---------------------------------------------------------------- verifyEmail with a failing collaborator
\* the awaited calls of verifyEmail that may throw into its catch
VerifyFailures == {"get", "findByIdAndUpdate", "del"}

verifyEmailWith(token, fail) ==
    IF fail = "none" \/ verifyEmail(token).status # 200
    THEN verifyEmail(token)
    ELSE IF fail = "del"
    THEN Outcome(400, "Invalid or expired verification token",
                 verifyConsume(token.userId).users, redis, NoToken, NoToken)
    ELSE Outcome(400, "Invalid or expired verification token", users, redis, NoToken, NoToken)

VerifyEmailWith(token, fail) ==
    Apply("verifyEmail", SubjectOf(token), verifyEmailWith(token, fail))

NextVerifyFail ==
    \/ Tick
    \/ \E e \in Emails, p \in RegisterPasswords : Register(e, p)
    \/ \E e \in Emails, p \in LoginPasswords : Login(e, p)
    \/ \E t \in Tokens, fail \in VerifyFailures \cup {"none"} : VerifyEmailWith(t, fail)

SpecVerifyFail == Init /\ [][NextVerifyFail]_vars

\* C32: isEmailVerified is false on creation, no operation sets it back to
\* false, and it becomes true only in a verifyEmail that is answered with
\* success: after a verifyEmail that reports failure the user is as
\* unverified as before.
C32_VerificationMonotonic ==
    [][\A e \in Emails :
          /\ (~users[e].exists /\ users'[e].exists) => ~users'[e].isEmailVerified
          /\ (users[e].exists /\ users[e].isEmailVerified) => users'[e].isEmailVerified
          /\ (~users[e].isEmailVerified /\ users'[e].isEmailVerified) =>
                (res'.op = "verifyEmail" /\ res'.status = 200 /\ res'.sub = IdOf(e))]_vars
\* C33: when the blacklist lookup throws, authenticate answers 401 and does
\* not call the handler, whatever the token.
C33_AuthenticateFailsClosed ==
    \A h \in Headers :
        /\ ~authenticateStore(h, "get").next
        /\ authenticateStore(h, "get").status = 401
        /\ authenticateStore(h, "get").user = NoToken

\* a request of a registered subject was answered 401 while every token of
\* that subject verifies and passes authenticate with the store reachable:
\* the lookup has failed
C33_Witness ==
    /\ res.op = "authenticate"
    /\ res.status = 401
    /\ res.sub # "-"
    /\ \A t \in SignedTokens :
          SubjectOf(t) = res.sub =>
              /\ authenticate(Bearer(t)).next
              /\ ~authenticateStore(Bearer(t), "get").next

\* ---------------------------------------------------------------- products
\* A name is a sequence of characters, so that the slug is computed from it.
ProductNames == {<<"M", "u", "g">>, <<"C", " ", "u", "p">>}

toLowerCase(c) ==
    CASE c = "M" -> "m"
      [] c = "C" -> "c"
      [] OTHER -> c

RECURSIVE collapseSpaces(_)
\* /\s+/g -> '-': a run of white space becomes one hyphen
collapseSpaces(cs) ==
    IF cs = <<>> THEN <<>>
    ELSE IF Head(cs) # " " THEN <<Head(cs)>> \o collapseSpaces(Tail(cs))
    ELSE IF Len(cs) > 1 /\ cs[2] = " " THEN collapseSpaces(Tail(cs))
    ELSE <<"-">> \o collapseSpaces(Tail(cs))

\* the pre('save') hook: lower case, drop what is neither a word character
\* nor white space, hyphenate
slugify(name) ==
    LET lower == [i \in 1..Len(name) |-> toLowerCase(name[i])]
        WordChars == {"m", "u", "g", "c", "p"}
        IsWordOrSpace(c) == c \in WordChars \cup {" "}
    IN collapseSpaces(SelectSeq(lower, IsWordOrSpace))

ProductSlugs == {slugify(n) : n \in ProductNames}

MaxStock == 2

ProductCacheTtl == 2

Amounts == {-1, 0, 1, 2}

Operations == {"add", "subtract", "set"}

NoData == "-"

UpdateData == [name : ProductNames \cup {NoName}, status : {NoData, "draft"}]

\* document.save() validates the document: quantity has min: 0. Whether the
\* validators run on a path the caller did not modify is left open.
saveThrows(doc, validates) == validates /\ doc.quantity < 0

\* what a product call answers and leaves behind
ProductOutcome(status, data, ps, r) ==
    [status |-> status, data |-> data, products |-> ps, redis |-> r]

\* a new document gets a fresh id
createProduct(ps, r, id, name, quantity) ==
    LET doc == [exists |-> TRUE, id |-> id, name |-> name, slug |-> slugify(name),
                quantity |-> quantity, status |-> "active"]
    IN ProductOutcome(201, doc, [ps EXCEPT ![id] = doc], r)

getProductById(ps, r, id) ==
    LET cacheKey == Key("product", id)
    IN IF redisExists(r, cacheKey)
       THEN ProductOutcome(200, redisGet(r, cacheKey), ps, r)
       ELSE IF ps[id].exists
            THEN ProductOutcome(200, ps[id], ps,
                                redisSetEx(r, cacheKey, ProductCacheTtl, ps[id]))
            ELSE ProductOutcome(404, NoProduct, ps, r)

getProductBySlug(ps, r, slug) ==
    LET cacheKey == Key("product:slug", slug)
        found == {id \in ProductIds :
                     ps[id].exists /\ ps[id].slug = slug /\ ps[id].status = "active"}
    IN IF redisExists(r, cacheKey)
       THEN ProductOutcome(200, redisGet(r, cacheKey), ps, r)
       ELSE IF found # {}
            THEN LET doc == ps[CHOOSE id \in found : TRUE]
                 IN ProductOutcome(200, doc, ps,
                                   redisSetEx(r, cacheKey, ProductCacheTtl, doc))
            ELSE ProductOutcome(404, NoProduct, ps, r)

updateProduct(ps, r, id, data, validates) ==
    IF ~ps[id].exists
    THEN ProductOutcome(404, NoProduct, ps, r)
    ELSE LET named == IF data.name # NoName THEN data.name ELSE ps[id].name
             doc == [ps[id] EXCEPT
                        !.name = named,
                        !.status = IF data.status # NoData THEN data.status ELSE @,
                        !.slug = IF named # ps[id].name THEN slugify(named) ELSE @]
         IN IF saveThrows(doc, validates)
            THEN ProductOutcome(500, NoProduct, ps, r)
            ELSE ProductOutcome(200, doc, [ps EXCEPT ![id] = doc],
                                redisDel(redisDel(r, Key("product", id)),
                                         Key("product:slug", doc.slug)))

deleteProduct(ps, r, id) ==
    IF ~ps[id].exists
    THEN ProductOutcome(404, NoProduct, ps, r)
    ELSE LET doc == [ps[id] EXCEPT !.status = "archived"]
         IN ProductOutcome(200, doc, [ps EXCEPT ![id] = doc],
                           redisDel(redisDel(r, Key("product", id)),
                                    Key("product:slug", doc.slug)))

updateInventory(ps, r, id, quantity, operation, validates) ==
    IF quantity = 0 \/ operation \notin {"add", "subtract"}
    THEN ProductOutcome(400, NoProduct, ps, r)
    ELSE IF ~ps[id].exists
    THEN ProductOutcome(404, NoProduct, ps, r)
    ELSE LET inc == IF operation = "add" THEN quantity ELSE 0 - quantity
             doc == [ps[id] EXCEPT !.quantity = @ + inc]
             saved == IF doc.quantity <= 0 /\ doc.status # "out_of_stock"
                      THEN [doc EXCEPT !.status = "out_of_stock"]
                      ELSE IF doc.quantity > 0 /\ doc.status = "out_of_stock"
                      THEN [doc EXCEPT !.status = "active"]
                      ELSE doc
         IN IF saved # doc /\ saveThrows(saved, validates)
            THEN ProductOutcome(500, NoProduct, [ps EXCEPT ![id] = doc], r)
            ELSE ProductOutcome(200, saved, [ps EXCEPT ![id] = saved],
                                redisDel(r, Key("product", id)))

ApplyProduct(op, id, o) ==
    /\ products' = o.products
    /\ redis' = o.redis
    /\ res' = Response(op, o.status, id, NoToken, NoToken)
    /\ UNCHANGED <<now, users, inflight, admitted>>

CreateProduct(id, name, quantity) ==
    /\ ~products[id].exists
    /\ ApplyProduct("createProduct", id, createProduct(products, redis, id, name, quantity))

GetProductById(id) ==
    ApplyProduct("getProductById", id, getProductById(products, redis, id))

GetProductBySlug(slug) ==
    LET o == getProductBySlug(products, redis, slug)
    IN ApplyProduct("getProductBySlug", o.data.id, o)

UpdateProduct(id, data, validates) ==
    ApplyProduct("updateProduct", id, updateProduct(products, redis, id, data, validates))

DeleteProduct(id) ==
    ApplyProduct("deleteProduct", id, deleteProduct(products, redis, id))

UpdateInventory(id, quantity, operation, validates) ==
    LET o == updateInventory(products, redis, id, quantity, operation, validates)
    IN /\ o.products[id].quantity \in (0 - MaxStock)..MaxStock
       /\ ApplyProduct("updateInventory", id, o)

\* The calls follow one another within the hour a cached copy lives, so the
\* clock stands still here and no copy expires between two calls.
NextProducts ==
    \/ \E id \in ProductIds, n \in ProductNames, q \in 0..MaxStock : CreateProduct(id, n, q)
    \/ \E id \in ProductIds : GetProductById(id)
    \/ \E s \in ProductSlugs : GetProductBySlug(s)
    \/ \E id \in ProductIds, d \in UpdateData, v \in BOOLEAN : UpdateProduct(id, d, v)
    \/ \E id \in ProductIds : DeleteProduct(id)
    \/ \E id \in ProductIds, q \in Amounts, op \in Operations, v \in BOOLEAN :
          UpdateInventory(id, q, op, v)

SpecProducts == Init /\ [][NextProducts]_vars

\* C34: the stored quantity of a product is never negative, whatever
\* sequence of updateInventory calls has been made.
C34_StockNeverNegative ==
    \A id \in ProductIds : products[id].exists => products[id].quantity >= 0


\* C35: a completed updateInventory leaves the status consistent with the
\* stock: active at quantity <= 0 becomes out_of_stock, out_of_stock at
\* quantity > 0 becomes active, archived and draft keep their status.
C35_StatusFollowsStock ==
    [][(res'.op = "updateInventory" /\ res'.status = 200) =>
          LET old == products[res'.sub]
              new == products'[res'.sub]
          IN /\ (old.status = "active" /\ new.quantity <= 0) => new.status = "out_of_stock"
             /\ (old.status = "out_of_stock" /\ new.quantity > 0) => new.status = "active"
             /\ old.status \in {"archived", "draft"} => new.status = old.status]_vars

SameProduct(a, b) ==
    a.name = b.name /\ a.quantity = b.quantity /\ a.status = b.status

\* C36: after a completed updateProduct, deleteProduct or updateInventory,
\* what getProductById and getProductBySlug (under any slug the product has
\* had) answer is the name, quantity and status of the database record.
C36_CacheCoherent ==
    (res.op \in {"updateProduct", "deleteProduct", "updateInventory"} /\ res.status = 200) =>
        /\ \A id \in ProductIds :
              LET o == getProductById(products, redis, id)
              IN o.status = 200 => SameProduct(o.data, products[id])
        /\ \A slug \in ProductSlugs :
              LET o == getProductBySlug(products, redis, slug)
              IN o.status = 200 => SameProduct(o.data, products[o.data.id])

====
